---- MODULE Spec2Model ----
(***************************************************************************)
(* Multi-stream frame broadcaster of rust-nvr: the registry of named       *)
(* streams (Clients), one tokio broadcast channel per stream, the ingest   *)
(* adapter's new_sample callback that publishes frames, and the per-viewer *)
(* session handle_ws_client with its two spawned tasks.                    *)
(*                                                                         *)
(* The repository holds two drafts of handle_ws_client (src/main.rs and    *)
(* src/web.rs); the variable impl says which one the build runs.           *)
(*                                                                         *)
(* The broadcast channel is tokio::sync::broadcast as the sources use it:  *)
(* channel(n) allocates a ring of n rounded up to a power of two slots,    *)
(* send stores nothing and fails when there is no receiver, subscribe      *)
(* starts a receiver at the tail, recv returns the slot at the receiver's  *)
(* cursor, or Lagged(missed) after moving the cursor to the oldest slot.   *)
(* Dropping the JoinHandle of a tokio::spawn task detaches the task.       *)
(***************************************************************************)
EXTENDS Integers, Sequences, FiniteSets, TLC

\* ---------------------------------------------------------------- bounds
\* The capacity handed to broadcast::channel (100 in the source), scaled down.
ChannelCapacity == 2
\* Frames the adapter of the first stream produces in a run; the adapter of
\* the second stream produces one frame.
MaxFrames == 4
MaxInbound == 1

\* ------------------------------------------------------------ stream names
\* A name is a sequence of characters; a character is a one-letter string.
LowerOf(ch) ==
    CASE ch = "C" -> "c"
      [] ch = "A" -> "a"
      [] ch = "M" -> "m"
      [] ch = "D" -> "d"
      [] ch = "O" -> "o"
      [] ch = "T" -> "t"
      [] ch = "V" -> "v"
      [] ch = "R" -> "r"
      [] ch = "E" -> "e"
      [] ch = "U" -> "u"
      [] ch = "X" -> "x"
      [] OTHER -> ch

to_lowercase(name) == [i \in DOMAIN name |-> LowerOf(name[i])]

\* The prefix of the environment keys that name cameras, and the prefix of
\* those that carry the credentials.
Prefix == <<"C", "C", "T", "V", "_">>
CredPrefix == Prefix \o <<"C", "R", "E", "D", "_">>

\* Keys of cameras: CCTV_Cam, CCTV_Do, and CCTV_CAM, which differs from the
\* first only in case.
Cam == Prefix \o <<"C", "a", "m">>
Do == Prefix \o <<"D", "o">>
CAM == Prefix \o <<"C", "A", "M">>

\* The environment keys that main registers as streams.
EnvStreams == {Cam, Do}

\* The registry's iteration order in a run with the keys of EnvStreams: a
\* HashMap iterates in an order fixed by its hasher for the life of the map.
EnvOrder == <<Cam, Do>>

\* The sets of stream keys a deployment's environment can hold: the one above,
\* and one whose two keys differ only in case.
EnvConfigs == {EnvStreams, {Cam, CAM}}

AllStreams == UNION EnvConfigs

\* Environment keys that name no camera: a credential (CCTV_CRED_U), the
\* camera prefix in lowercase (cctv_cam) and a key that holds the prefix but
\* does not start with it (XCCTV_Cam).
CredUser == CredPrefix \o <<"U">>
OtherKeys == {CredUser, to_lowercase(Cam), <<"X">> \o Cam}

\* CCTV_CRED: a key that starts with the camera prefix and falls one character
\* short of the credential prefix.
CredBare == Prefix \o <<"C", "R", "E", "D">>

\* The keys an environment is drawn from.
EnvKeys == AllStreams \cup OtherKeys \cup {CredBare}

\* str::starts_with.
starts_with(key, pat) ==
    /\ Len(key) >= Len(pat)
    /\ \A i \in 1..Len(pat) : key[i] = pat[i]

\* The names viewers ask for in /ws/:stream_name.
RequestNames == {to_lowercase(Cam), Prefix \o <<"D", "O">>, <<"x">>}

\* The viewer connections of a run, numbered in the order they arrive.
Sessions == {1, 2}

NoName == <<>>

\* ------------------------------------------------------------- the channel
RECURSIVE PowerOfTwoFrom(_, _)
PowerOfTwoFrom(p, n) == IF p >= n THEN p ELSE PowerOfTwoFrom(2 * p, n)

next_power_of_two(n) == PowerOfTwoFrom(1, n)

\* The capacity that main hands to broadcast::channel in this run.
VARIABLE capacity

\* Number of slots of the ring that broadcast::channel(capacity) allocates.
BufferLen == next_power_of_two(capacity)

SlotIndex == 0..(BufferLen - 1)

\* The ring of a new channel: slot i carries position i - len, no value.
NewBuffer == [i \in SlotIndex |-> [pos |-> i - BufferLen, val |-> 0]]

VARIABLES
    impl,       \* "main" or "web": the draft of handle_ws_client that runs
    environ,    \* the keys of the process environment, as env::vars() yields them
    clients,    \* the registry: stream name -> sequence of senders (channel ids)
    keyOrder,   \* the registry's keys in the order clients.keys() yields them
    mainPc,     \* position of main: "setup" in the registration loop, then "serving"
    pending,    \* rtsp_streams: the collected keys main has not registered yet
    lockHolder, \* the session holding clients.lock(), 0 when free
    tailPos,    \* per channel: tail.pos, the position of the next send
    rxCnt,      \* per channel: tail.rx_cnt, the number of live receivers
    buffer,     \* per channel: the ring of slots [pos, val]
    produced,   \* per channel: frames its adapter's callback has handled
    flow,       \* per channel: what the callback last returned to the pipeline
    pipeline,   \* per channel: "ok", or "failed" once setup_pipeline returned Err
    hs,         \* per session: position of handle_ws_client
    req,        \* per session: the requested stream_name
    key,        \* per session: the registry key the lookup found
    pcIn,       \* per session: the incoming task
    pcOut,      \* per session: the outgoing task
    rxNext,     \* per session: the receiver's cursor (Receiver.next)
    held,       \* per session: jpeg_data between recv and the transport write
    recvLog,    \* per session: what rx.recv() has returned, in order
    delivered,  \* per session: the messages written to the viewer, in order
    subAt,      \* per session: frames produced on its stream before subscribe
    overrun,    \* per session: a send has left the receiver more than a ring behind
    peer,       \* per session: "open" or "closed", the viewer's end of the transport
    inbound     \* per session: messages the viewer has sent, and how many were read

regVars == <<clients, keyOrder, mainPc, pending>>
chanVars == <<tailPos, rxCnt, buffer, produced, flow, pipeline>>
sessVars == <<hs, req, key, pcIn, pcOut, rxNext, held, recvLog, delivered, subAt, overrun>>
netVars == <<peer, inbound>>
vars == <<impl, environ, capacity, regVars, lockHolder, chanVars, sessVars, netVars>>

Channels == AllStreams \cup {CredBare}

\* Whether session s owns a live Receiver: the handler holds rx until the tasks
\* are spawned, then the outgoing task owns it until that task ends.
RxAlive(s) == hs[s] = "greet" \/ pcOut[s] \in {"recv", "send"}

\* ---------------------------------------------------------------- Init
\* The state when warp::serve starts: main has registered every stream with one
\* sender, and has dropped the receiver that broadcast::channel returned.
Init ==
    /\ impl \in {"main", "web"}
    /\ environ = EnvStreams \cup OtherKeys
    /\ capacity = ChannelCapacity
    /\ clients = [k \in EnvStreams |-> <<k>>]
    /\ keyOrder = EnvOrder
    /\ mainPc = "serving"
    /\ pending = {}
    /\ lockHolder = 0
    /\ tailPos = [c \in Channels |-> 0]
    /\ rxCnt = [c \in Channels |-> 0]
    /\ buffer = [c \in Channels |-> NewBuffer]
    /\ produced = [c \in Channels |-> 0]
    /\ flow = [c \in Channels |-> "none"]
    /\ pipeline = [c \in Channels |-> "ok"]
    /\ hs = [s \in Sessions |-> "idle"]
    /\ req = [s \in Sessions |-> NoName]
    /\ key = [s \in Sessions |-> NoName]
    /\ pcIn = [s \in Sessions |-> "none"]
    /\ pcOut = [s \in Sessions |-> "none"]
    /\ rxNext = [s \in Sessions |-> 0]
    /\ held = [s \in Sessions |-> 0]
    /\ recvLog = [s \in Sessions |-> <<>>]
    /\ delivered = [s \in Sessions |-> <<>>]
    /\ subAt = [s \in Sessions |-> 0]
    /\ overrun = [s \in Sessions |-> FALSE]
    /\ peer = [s \in Sessions |-> "open"]
    /\ inbound = [s \in Sessions |-> [sent |-> 0, read |-> 0]]

\* ------------------------------------------------------- ingest adapter
\* How many frames the adapter of channel c produces in a run: for the first
\* camera MaxFrames and as many more as the run's capacity is above
\* ChannelCapacity, so that its ring can be overrun.
FrameBudget(c) ==
    IF c = Cam THEN MaxFrames + (capacity - ChannelCapacity) ELSE 1

\* ChannelOf as a registry whose entries all share the sender of the first
\* registered stream would do it.
ChannelOf_First(k) == clients[keyOrder[1]][1]

\* The channel behind the first sender of registry entry k.
ChannelOf(k) == clients[k][1]

\* ChanSend as a bounded queue would do it: a frame that would overrun the
\* slowest live receiver is dropped instead of overwriting the oldest slot.
ChanSend_Bounded(c, frame) ==
    IF \/ rxCnt[c] = 0
       \/ \E t \in Sessions :
             /\ RxAlive(t)
             /\ ChannelOf(key[t]) = c
             /\ tailPos[c] - rxNext[t] >= BufferLen
    THEN UNCHANGED <<tailPos, buffer>>
    ELSE /\ buffer' = [buffer EXCEPT ![c][tailPos[c] % BufferLen] =
                          [pos |-> tailPos[c], val |-> frame]]
         /\ tailPos' = [tailPos EXCEPT ![c] = @ + 1]

\* ChanSend as an unbounded queue would do it: every frame gets a slot of its
\* own and none is overwritten.
ChanSend_Unbounded(c, frame) ==
    IF rxCnt[c] = 0
    THEN UNCHANGED <<tailPos, buffer>>
    ELSE /\ buffer' = [buffer EXCEPT ![c] =
                          [i \in DOMAIN @ \cup {tailPos[c]} |->
                              IF i = tailPos[c] THEN [pos |-> tailPos[c], val |-> frame]
                              ELSE @[i]]]
         /\ tailPos' = [tailPos EXCEPT ![c] = @ + 1]

\* Sender::send: with no receiver it fails and stores nothing; otherwise it
\* writes slot tail.pos & mask and advances the tail.
ChanSend(c, frame) ==
    IF rxCnt[c] = 0
    THEN UNCHANGED <<tailPos, buffer>>
    ELSE /\ buffer' = [buffer EXCEPT ![c][tailPos[c] % BufferLen] =
                          [pos |-> tailPos[c], val |-> frame]]
         /\ tailPos' = [tailPos EXCEPT ![c] = @ + 1]

\* What Sender::send returns: Err(SendError) with no receiver, else Ok(rx_cnt).
SendResult(c) == IF rxCnt[c] = 0 THEN "Err" ELSE "Ok"

\* FlowReturn as a callback that hands a failed send to the pipeline would do it.
FlowReturn_Propagate(sent) == IF sent = "Err" THEN "Error" ELSE "Ok"

\* What new_sample returns to the pipeline after tx.send: the send result is
\* printed (unwrap_or(0)) and the callback returns Ok(FlowSuccess::Ok).
FlowReturn(sent) == "Ok"

\* Publish as a sender with backpressure would do it: the callback waits while
\* a live receiver has a full ring of unread frames.
Publish_Backpressure(c) ==
    /\ c \in DOMAIN clients
    /\ pipeline[c] = "ok"
    /\ flow[c] # "Error"
    /\ produced[c] < FrameBudget(c)
    /\ \A t \in Sessions :
          (RxAlive(t) /\ ChannelOf(key[t]) = c) => tailPos[c] - rxNext[t] < BufferLen
    /\ produced' = [produced EXCEPT ![c] = @ + 1]
    /\ ChanSend(c, produced[c] + 1)
    /\ flow' = [flow EXCEPT ![c] = FlowReturn(SendResult(c))]
    /\ overrun' = overrun
    /\ UNCHANGED <<impl, environ, capacity, regVars, lockHolder, rxCnt, pipeline, netVars,
                   hs, req, key, pcIn, pcOut, rxNext, held, recvLog, delivered, subAt>>

\* The new_sample callback with a sample whose buffer maps: tx.send(map.to_vec()),
\* the result only printed. The frame is numbered by the adapter's own count.
\* The callback takes neither the registry lock nor waits for any receiver.
\* It runs once the stream's pipeline thread exists, and for as long as the
\* pipeline has not been handed a flow error.
Publish(c) ==
    /\ c \in DOMAIN clients
    /\ pipeline[c] = "ok"
    /\ flow[c] # "Error"
    /\ produced[c] < FrameBudget(c)
    /\ produced' = [produced EXCEPT ![c] = @ + 1]
    /\ ChanSend(c, produced[c] + 1)
    /\ flow' = [flow EXCEPT ![c] = FlowReturn(SendResult(c))]
    /\ overrun' = [s \in Sessions |->
                     overrun[s] \/ (RxAlive(s) /\ ChannelOf(key[s]) = c
                                    /\ tailPos'[c] - rxNext[s] > BufferLen)]
    /\ UNCHANGED <<impl, environ, capacity, regVars, lockHolder, rxCnt, pipeline, netVars,
                   hs, req, key, pcIn, pcOut, rxNext, held, recvLog, delivered, subAt>>

\* The streams whose camera or pipeline can fail in a run.
Unreliable == {Do}

\* SetupFails as a thread that takes the stream out of the registry when its
\* pipeline cannot be set up would do it.
SetupFails_Unregisters(c) ==
    /\ c \in DOMAIN clients
    /\ c \in Unreliable
    /\ pipeline[c] = "ok"
    /\ flow[c] = "none"
    /\ pipeline' = [pipeline EXCEPT ![c] = "failed"]
    /\ clients' = [k \in DOMAIN clients \ {c} |-> clients[k]]
    /\ keyOrder' = SelectSeq(keyOrder, LAMBDA k : k # c)
    /\ UNCHANGED <<impl, environ, capacity, mainPc, pending, lockHolder, tailPos, rxCnt, buffer,
                   produced, flow, sessVars, netVars>>

\* setup_pipeline returns Err (the pipeline string does not parse, an element
\* is missing, the state change to Playing fails): the thread prints the error
\* and ends, the callback never runs, and the Sender moved into setup_pipeline
\* is dropped. The stream stays registered.
SetupFails(c) ==
    /\ c \in DOMAIN clients
    /\ c \in Unreliable
    /\ pipeline[c] = "ok"
    /\ flow[c] = "none"
    /\ pipeline' = [pipeline EXCEPT ![c] = "failed"]
    /\ UNCHANGED <<impl, environ, capacity, regVars, lockHolder, tailPos, rxCnt, buffer, produced, flow,
                   sessVars, netVars>>

\* SampleFails as a callback that publishes an empty frame in place of the
\* sample it could not read would do it.
SampleFails_Placeholder(c) ==
    /\ c \in DOMAIN clients
    /\ c \in Unreliable
    /\ pipeline[c] = "ok"
    /\ flow[c] # "Error"
    /\ ChanSend(c, 0)
    /\ flow' = [flow EXCEPT ![c] = "Ok"]
    /\ UNCHANGED <<impl, environ, capacity, regVars, lockHolder, rxCnt, produced, pipeline,
                   sessVars, netVars>>

\* The new_sample callback with a sample that cannot be pulled, has no buffer,
\* or whose buffer cannot be mapped: it prints and returns
\* Ok(gst::FlowSuccess::Ok) before tx.send.
SampleFails(c) ==
    /\ c \in DOMAIN clients
    /\ c \in Unreliable
    /\ pipeline[c] = "ok"
    /\ flow[c] # "Error"
    /\ flow' = [flow EXCEPT ![c] = "Ok"]
    /\ UNCHANGED <<impl, environ, capacity, regVars, lockHolder, tailPos, rxCnt, buffer, produced, pipeline,
                   sessVars, netVars>>

\* ------------------------------------------------------------ the receiver
\* The Senders the registry holds for channel c, as (key, index) pairs.
RegistrySenders(c) ==
    {e \in UNION {{<<k, i>> : i \in DOMAIN clients[k]} : k \in DOMAIN clients} :
        clients[e[1]][e[2]] = c}

\* SenderCount as a registry that keeps no Sender of its own would do it.
SenderCount_AdapterOnly(c) ==
    IF c \in DOMAIN clients /\ pipeline[c] = "ok" THEN 1 ELSE 0

\* The live Senders of channel c: the clones in the registry and the clone
\* moved into the stream's pipeline thread, which is dropped when
\* setup_pipeline fails. The channel closes when the last one is dropped.
SenderCount(c) ==
    Cardinality(RegistrySenders(c))
        + (IF c \in DOMAIN clients /\ pipeline[c] = "ok" THEN 1 ELSE 0)

\* Subscribe without the receiver count: the sender does not learn of the receiver.
Subscribe_NoCount(s, c) ==
    /\ rxCnt' = rxCnt
    /\ rxNext' = [rxNext EXCEPT ![s] = tailPos[c]]

\* Subscribe with the cursor one past the tail.
Subscribe_PastTail(s, c) ==
    /\ rxCnt' = [rxCnt EXCEPT ![c] = @ + 1]
    /\ rxNext' = [rxNext EXCEPT ![s] = tailPos[c] + 1]

\* Subscribe with the cursor at the oldest slot the ring retains.
Subscribe_FromOldest(s, c) ==
    /\ rxCnt' = [rxCnt EXCEPT ![c] = @ + 1]
    /\ rxNext' = [rxNext EXCEPT ![s] =
                     IF tailPos[c] > BufferLen THEN tailPos[c] - BufferLen ELSE 0]

\* Sender::subscribe: one more receiver, its cursor at the tail.
Subscribe(s, c) ==
    /\ rxCnt' = [rxCnt EXCEPT ![c] = @ + 1]
    /\ rxNext' = [rxNext EXCEPT ![s] = tailPos[c]]

\* recv without the lag report: an overwritten slot is returned as if it were
\* the next frame.
RecvResult_Silent(c, nxt) ==
    LET slot == buffer[c][nxt % BufferLen]
    IN  IF slot.pos = nxt
        THEN [kind |-> "Ok", val |-> slot.val, next |-> nxt + 1]
        ELSE IF slot.pos + BufferLen = nxt
        THEN [kind |-> "Empty", val |-> 0, next |-> nxt]
        ELSE [kind |-> "Ok", val |-> slot.val, next |-> slot.pos + 1]

\* recv that reports every unread frame as missed, the retained ones included.
RecvResult_CountsBacklog(c, nxt) ==
    LET slot == buffer[c][nxt % BufferLen]
        oldest == tailPos[c] - BufferLen
    IN  IF slot.pos = nxt
        THEN [kind |-> "Ok", val |-> slot.val, next |-> nxt + 1]
        ELSE IF slot.pos + BufferLen = nxt
        THEN [kind |-> "Empty", val |-> 0, next |-> nxt]
        ELSE [kind |-> "Lagged", val |-> tailPos[c] - nxt, next |-> oldest]

\* recv that, having reported a lag, resumes at the newest frame of the ring.
RecvResult_ResumesAtNewest(c, nxt) ==
    LET slot == buffer[c][nxt % BufferLen]
        oldest == tailPos[c] - BufferLen
    IN  IF slot.pos = nxt
        THEN [kind |-> "Ok", val |-> slot.val, next |-> nxt + 1]
        ELSE IF slot.pos + BufferLen = nxt
        THEN [kind |-> "Empty", val |-> 0, next |-> nxt]
        ELSE [kind |-> "Lagged", val |-> oldest - nxt, next |-> tailPos[c] - 1]

\* Receiver::recv at cursor nxt of channel c: the outcome and the new cursor.
\*   slot.pos = nxt            the value of the slot, cursor + 1
\*   slot.pos + len = nxt      nothing sent yet at nxt: the future stays pending,
\*                             or Closed when every Sender has been dropped
\*   otherwise                 the slot was overwritten: the cursor moves to the
\*                             oldest slot, tail.pos - len, and Lagged(missed)
RecvResult(c, nxt) ==
    LET slot == buffer[c][nxt % BufferLen]
        oldest == tailPos[c] - BufferLen
    IN  IF slot.pos = nxt
        THEN [kind |-> "Ok", val |-> slot.val, next |-> nxt + 1]
        ELSE IF slot.pos + BufferLen = nxt
        THEN IF SenderCount(c) = 0
             THEN [kind |-> "Closed", val |-> 0, next |-> nxt]
             ELSE [kind |-> "Empty", val |-> 0, next |-> nxt]
        ELSE IF oldest - nxt = 0
        THEN [kind |-> "Ok", val |-> slot.val, next |-> nxt + 1]
        ELSE [kind |-> "Lagged", val |-> oldest - nxt, next |-> oldest]

\* DropReceiver as a channel that shuts when any receiver leaves would do it.
DropReceiver_Shuts(c) == rxCnt' = [rxCnt EXCEPT ![c] = 0]

\* Dropping the Receiver: one receiver fewer.
DropReceiver(c) == rxCnt' = [rxCnt EXCEPT ![c] = @ - 1]

\* ---------------------------------------------------------- the transport
\* The server side keeps the socket while either half of the split is alive.
TxHeld(s) == hs[s] \in {"locked", "greet"} \/ pcOut[s] \in {"recv", "send"}
RxHalfHeld(s) == hs[s] \in {"locked", "greet"} \/ pcIn[s] = "run"
TransportHeld(s) == TxHeld(s) \/ RxHalfHeld(s)

\* The viewer closes its end, or the connection breaks. A close that falls in
\* the handler's block under the lock is taken after the block, which is
\* synchronous and does not look at the transport.
ViewerClose(s) ==
    /\ TransportHeld(s)
    /\ hs[s] # "locked"
    /\ peer[s] = "open"
    /\ peer' = [peer EXCEPT ![s] = "closed"]
    /\ UNCHANGED <<impl, environ, capacity, regVars, lockHolder, chanVars, sessVars, inbound>>

\* A message of any kind from the viewer reaches the server's end of the open
\* connection. What arrives before the incoming task exists waits in the socket
\* and is counted when the task is there to read it.
ViewerSend(s) ==
    /\ pcIn[s] = "run"
    /\ peer[s] = "open"
    /\ inbound[s].sent < MaxInbound
    /\ inbound' = [inbound EXCEPT ![s].sent = @ + 1]
    /\ UNCHANGED <<impl, environ, capacity, regVars, lockHolder, chanVars, sessVars, peer>>

\* ------------------------------------------------------- handle_ws_client
\* warp upgrades a /ws/:stream_name request and calls the handler, which splits
\* the socket and takes clients.lock(); a handler that finds the mutex taken
\* waits in lock() until it is free. Sessions are numbered in the order in
\* which they get the lock. warp serves requests once main has left its
\* registration loop.
Invoke(s) ==
    /\ mainPc = "serving"
    /\ hs[s] = "idle"
    /\ \A t \in Sessions : t < s => hs[t] # "idle"
    /\ lockHolder = 0
    /\ lockHolder' = s
    /\ \E n \in RequestNames : req' = [req EXCEPT ![s] = n]
    /\ hs' = [hs EXCEPT ![s] = "locked"]
    /\ UNCHANGED <<impl, environ, capacity, regVars, chanVars, netVars,
                   key, pcIn, pcOut, rxNext, held, recvLog, delivered, subAt, overrun>>

\* FoundKeys as a lookup that falls back to any registered stream when no key
\* matches would do it.
FoundKeys_Fallback(name) ==
    LET matching == {k \in DOMAIN clients : to_lowercase(k) = to_lowercase(name)}
    IN  IF matching = {} THEN DOMAIN clients ELSE matching

\* FoundKeys as a registry that forgets a stream once its last viewer has left
\* would do it: a channel that has carried frames and has no receiver is gone.
FoundKeys_Live(name) ==
    {k \in DOMAIN clients :
        /\ to_lowercase(k) = to_lowercase(name)
        /\ ~(rxCnt[clients[k][1]] = 0 /\ tailPos[clients[k][1]] > 0)}

\* The keys that pass the closure of clients_lock.keys().find(..): those whose
\* lowercase form is the lowercase form of the requested name.
FoundKeys(name) == {k \in DOMAIN clients : to_lowercase(k) = to_lowercase(name)}

\* Iterator::find over clients_lock.keys(): the first key, in the map's
\* iteration order, that passes the closure; NoName stands for None.
find(name) ==
    LET at == {i \in DOMAIN keyOrder : keyOrder[i] \in FoundKeys(name)}
    IN  IF at = {} THEN NoName ELSE keyOrder[CHOOSE i \in at : \A j \in at : i <= j]

\* The names under which the page that create_html_file writes opens its
\* sockets, one per listed stream, in the order of the list:
\*   new WebSocket('ws://' + host + '/ws/' + streamName.toLowerCase())
create_html_file(stream_names) ==
    [i \in DOMAIN stream_names |-> to_lowercase(stream_names[i])]

\* tokio::spawn of the incoming and the outgoing task.
SpawnTasks(s) ==
    /\ pcIn' = [pcIn EXCEPT ![s] = "run"]
    /\ pcOut' = [pcOut EXCEPT ![s] = "recv"]

\* LookupSubscribe as a handler that registers a name it does not find, with
\* no sender, would do it.
LookupSubscribe_Registers(s) ==
    /\ hs[s] = "locked"
    /\ lockHolder' = 0
    /\ LET k == find(req[s])
       IN  IF k = NoName \/ Len(clients[k]) = 0
           THEN /\ hs' = [hs EXCEPT ![s] = "rejected"]
                /\ clients' = [j \in DOMAIN clients \cup {req[s]} |->
                                  IF j \in DOMAIN clients THEN clients[j] ELSE <<>>]
                /\ UNCHANGED <<rxCnt, rxNext, key, subAt, pcIn, pcOut>>
           ELSE /\ Subscribe(s, ChannelOf(k))
                /\ key' = [key EXCEPT ![s] = k]
                /\ subAt' = [subAt EXCEPT ![s] = produced[ChannelOf(k)]]
                /\ clients' = clients
                /\ IF impl = "web"
                   THEN /\ hs' = [hs EXCEPT ![s] = "greet"]
                        /\ UNCHANGED <<pcIn, pcOut>>
                   ELSE /\ hs' = [hs EXCEPT ![s] = "select"]
                        /\ SpawnTasks(s)
    /\ UNCHANGED <<impl, environ, capacity, keyOrder, mainPc, pending, tailPos, buffer, produced, flow,
                   pipeline, netVars, req, held, recvLog, delivered, overrun>>

\* LookupSubscribe as a handler that keeps the guard of a viewer it accepts, for
\* as long as it serves that viewer, would do it.
LookupSubscribe_GuardOutlivesBlock(s) ==
    /\ hs[s] = "locked"
    /\ LET k == find(req[s])
       IN  IF k = NoName \/ Len(clients[k]) = 0
           THEN /\ hs' = [hs EXCEPT ![s] = "rejected"]
                /\ lockHolder' = 0
                /\ UNCHANGED <<rxCnt, rxNext, key, subAt, pcIn, pcOut>>
           ELSE /\ UNCHANGED lockHolder
                /\ Subscribe(s, ChannelOf(k))
                /\ key' = [key EXCEPT ![s] = k]
                /\ subAt' = [subAt EXCEPT ![s] = produced[ChannelOf(k)]]
                /\ IF impl = "web"
                   THEN /\ hs' = [hs EXCEPT ![s] = "greet"]
                        /\ UNCHANGED <<pcIn, pcOut>>
                   ELSE /\ hs' = [hs EXCEPT ![s] = "select"]
                        /\ SpawnTasks(s)
    /\ UNCHANGED <<impl, environ, capacity, regVars, tailPos, buffer, produced, flow, pipeline, netVars,
                   req, held, recvLog, delivered, overrun>>

\* LookupSubscribe as a handler that leaves the registry locked when it returns
\* early would do it.
LookupSubscribe_KeepsLock(s) ==
    /\ hs[s] = "locked"
    /\ LET k == find(req[s])
       IN  IF k = NoName \/ Len(clients[k]) = 0
           THEN /\ hs' = [hs EXCEPT ![s] = "rejected"]
                /\ UNCHANGED <<lockHolder, rxCnt, rxNext, key, subAt, pcIn, pcOut>>
           ELSE /\ lockHolder' = 0
                /\ Subscribe(s, ChannelOf(k))
                /\ key' = [key EXCEPT ![s] = k]
                /\ subAt' = [subAt EXCEPT ![s] = produced[ChannelOf(k)]]
                /\ IF impl = "web"
                   THEN /\ hs' = [hs EXCEPT ![s] = "greet"]
                        /\ UNCHANGED <<pcIn, pcOut>>
                   ELSE /\ hs' = [hs EXCEPT ![s] = "select"]
                        /\ SpawnTasks(s)
    /\ UNCHANGED <<impl, environ, capacity, regVars, tailPos, buffer, produced, flow, pipeline, netVars,
                   req, held, recvLog, delivered, overrun>>

\* The block under the lock: no match, or no sender, returns (the guard and both
\* socket halves are dropped); a match subscribes. In main.rs the tasks are
\* spawned right after the block; web.rs first sends a greeting.
LookupSubscribe(s) ==
    /\ hs[s] = "locked"
    /\ lockHolder' = 0
    /\ LET k == find(req[s])
       IN  IF k = NoName \/ Len(clients[k]) = 0
           THEN /\ hs' = [hs EXCEPT ![s] = "rejected"]
                /\ UNCHANGED <<rxCnt, rxNext, key, subAt, pcIn, pcOut>>
           ELSE /\ Subscribe(s, ChannelOf(k))
                /\ key' = [key EXCEPT ![s] = k]
                /\ subAt' = [subAt EXCEPT ![s] = produced[ChannelOf(k)]]
                /\ IF impl = "web"
                   THEN /\ hs' = [hs EXCEPT ![s] = "greet"]
                        /\ UNCHANGED <<pcIn, pcOut>>
                   ELSE /\ hs' = [hs EXCEPT ![s] = "select"]
                        /\ SpawnTasks(s)
    /\ UNCHANGED <<impl, environ, capacity, regVars, tailPos, buffer, produced, flow, pipeline, netVars,
                   req, held, recvLog, delivered, overrun>>

\* web.rs only: ws_tx.send(Message::text("Connected to stream")).await, the
\* result ignored; then the tasks are spawned.
Greet(s) ==
    /\ hs[s] = "greet"
    /\ delivered' = [delivered EXCEPT ![s] =
                        IF peer[s] = "open" THEN Append(@, <<"text", 0>>) ELSE @]
    /\ hs' = [hs EXCEPT ![s] = "select"]
    /\ SpawnTasks(s)
    /\ UNCHANGED <<impl, environ, capacity, regVars, lockHolder, chanVars, netVars,
                   req, key, rxNext, held, recvLog, subAt, overrun>>

\* Incoming as a task that takes a message from the viewer as the end of the
\* session would do it.
Incoming_EndsOnMessage(s) ==
    /\ pcIn[s] = "run"
    /\ \E result \in {"Ok", "Err", "None"} :
          /\ result = "Ok" <=> inbound[s].read < inbound[s].sent
          /\ result # "Ok" => peer[s] # "open"
          /\ pcIn' = [pcIn EXCEPT ![s] = "done"]
          /\ inbound' = [inbound EXCEPT ![s].read = IF result = "Ok" THEN @ + 1 ELSE @]
    /\ UNCHANGED <<impl, environ, capacity, regVars, lockHolder, chanVars, peer,
                   hs, req, key, pcOut, rxNext, held, recvLog, delivered, subAt, overrun>>

\* One turn of the incoming task at ws_rx.next().await:
\*   while let Some(result) = ws_rx.next().await { if result.is_err() { break; } }
\* A message the viewer has sent is read as Some(Ok(message)) and dropped, and
\* the loop goes on. With nothing to read the task waits while the viewer's end
\* is open; once it is closed or broken the read yields None or Some(Err(_)),
\* which ends the loop and the task.
Incoming(s) ==
    /\ pcIn[s] = "run"
    /\ \E result \in {"Ok", "Err", "None"} :
          /\ result = "Ok" <=> inbound[s].read < inbound[s].sent
          /\ result # "Ok" => peer[s] # "open"
          /\ pcIn' = [pcIn EXCEPT ![s] = IF result = "Ok" THEN "run" ELSE "done"]
          /\ inbound' = [inbound EXCEPT ![s].read = IF result = "Ok" THEN @ + 1 ELSE @]
    /\ UNCHANGED <<impl, environ, capacity, regVars, lockHolder, chanVars, peer,
                   hs, req, key, pcOut, rxNext, held, recvLog, delivered, subAt, overrun>>

\* The outgoing task of main.rs at rx.recv().await:
\*   while let Ok(jpeg_data) = rx.recv().await { .. }
\* any Err, Lagged included, ends the loop; the task ends and drops rx.
Outgoing_main(s) ==
    /\ impl = "main"
    /\ pcOut[s] = "recv"
    /\ LET c == ChannelOf(key[s])
           r == RecvResult(c, rxNext[s])
       IN  /\ r.kind # "Empty"
           /\ rxNext' = [rxNext EXCEPT ![s] = r.next]
           /\ IF r.kind = "Ok"
              THEN /\ recvLog' = [recvLog EXCEPT ![s] = Append(@, <<"F", r.val>>)]
                   /\ held' = [held EXCEPT ![s] = r.val]
                   /\ pcOut' = [pcOut EXCEPT ![s] = "send"]
                   /\ UNCHANGED rxCnt
              ELSE /\ recvLog' = [recvLog EXCEPT ![s] =
                                     Append(@, <<IF r.kind = "Lagged" THEN "L" ELSE "C", r.val>>)]
                   /\ pcOut' = [pcOut EXCEPT ![s] = "done"]
                   /\ DropReceiver(c)
                   /\ UNCHANGED held
    /\ UNCHANGED <<impl, environ, capacity, regVars, lockHolder, tailPos, buffer, produced, flow, pipeline, netVars,
                   hs, req, key, pcIn, delivered, subAt, overrun>>

\* The outgoing task of web.rs at rx.recv().await:
\*   Ok(jpeg_data) => send it; Err(Lagged(n)) => continue; Err(_) => break
Outgoing_web(s) ==
    /\ impl = "web"
    /\ pcOut[s] = "recv"
    /\ LET c == ChannelOf(key[s])
           r == RecvResult(c, rxNext[s])
       IN  /\ r.kind # "Empty"
           /\ rxNext' = [rxNext EXCEPT ![s] = r.next]
           /\ IF r.kind = "Ok"
              THEN /\ recvLog' = [recvLog EXCEPT ![s] = Append(@, <<"F", r.val>>)]
                   /\ held' = [held EXCEPT ![s] = r.val]
                   /\ pcOut' = [pcOut EXCEPT ![s] = "send"]
                   /\ UNCHANGED rxCnt
              ELSE IF r.kind = "Lagged"
              THEN /\ recvLog' = [recvLog EXCEPT ![s] = Append(@, <<"L", r.val>>)]
                   /\ UNCHANGED <<held, pcOut, rxCnt>>
              ELSE /\ recvLog' = [recvLog EXCEPT ![s] = Append(@, <<"C", r.val>>)]
                   /\ pcOut' = [pcOut EXCEPT ![s] = "done"]
                   /\ DropReceiver(c)
                   /\ UNCHANGED held
    /\ UNCHANGED <<impl, environ, capacity, regVars, lockHolder, tailPos, buffer, produced, flow, pipeline, netVars,
                   hs, req, key, pcIn, delivered, subAt, overrun>>

\* OutgoingSend as a pump that skips a frame it could not write and goes on
\* would do it.
OutgoingSend_SkipsFailure(s) ==
    /\ pcOut[s] = "send"
    /\ held' = [held EXCEPT ![s] = 0]
    /\ delivered' = [delivered EXCEPT ![s] =
                        IF peer[s] = "open" THEN Append(@, <<"binary", held[s]>>) ELSE @]
    /\ pcOut' = [pcOut EXCEPT ![s] = "recv"]
    /\ UNCHANGED <<impl, environ, capacity, regVars, lockHolder, chanVars, netVars,
                   hs, req, key, pcIn, rxNext, recvLog, subAt, overrun>>

\* The outgoing task at ws_tx.send(Message::binary(jpeg_data)).await: the frame
\* goes out as one binary message; a failed write ends the loop and drops rx.
OutgoingSend(s) ==
    /\ pcOut[s] = "send"
    /\ held' = [held EXCEPT ![s] = 0]
    /\ IF peer[s] = "open"
       THEN /\ delivered' = [delivered EXCEPT ![s] = Append(@, <<"binary", held[s]>>)]
            /\ pcOut' = [pcOut EXCEPT ![s] = "recv"]
            /\ UNCHANGED rxCnt
       ELSE /\ pcOut' = [pcOut EXCEPT ![s] = "done"]
            /\ DropReceiver(ChannelOf(key[s]))
            /\ UNCHANGED delivered
    /\ UNCHANGED <<impl, environ, capacity, regVars, lockHolder, tailPos, buffer, produced, flow, pipeline, netVars,
                   hs, req, key, pcIn, rxNext, recvLog, subAt, overrun>>

\* tokio::select! over the two JoinHandles: the handler returns when either task
\* has finished. The other JoinHandle is dropped, which detaches its task: the
\* task keeps running with what it owns (rx and ws_tx, or ws_rx).
Select(s) ==
    /\ hs[s] = "select"
    /\ "done" \in {pcIn[s], pcOut[s]}
    /\ hs' = [hs EXCEPT ![s] = "returned"]
    /\ UNCHANGED <<impl, environ, capacity, regVars, lockHolder, chanVars, netVars,
                   req, key, pcIn, pcOut, rxNext, held, recvLog, delivered, subAt, overrun>>

Next ==
    \/ \E c \in Channels : Publish(c)
    \/ \E s \in Sessions :
          \/ Invoke(s)
          \/ LookupSubscribe(s)
          \/ Greet(s)
          \/ Incoming(s)
          \/ Outgoing_main(s)
          \/ Outgoing_web(s)
          \/ OutgoingSend(s)
          \/ Select(s)
          \/ ViewerClose(s)

Spec == Init /\ [][Next]_vars

\* ------------------------------------------------------ failing cameras
\* The server with cameras that can fail: every step of Next, and the two ways
\* an ingest adapter comes to publish nothing.
NextIngest ==
    \/ Next
    \/ \E c \in Channels :
          \/ SetupFails(c)
          \/ SampleFails(c)

SpecIngest == Init /\ [][NextIngest]_vars

\* ------------------------------------------- a capacity of another shape
\* The state when warp::serve starts in a build whose channel capacity is, like
\* the 100 of main.rs, not a power of two.
InitRing ==
    /\ impl \in {"main", "web"}
    /\ environ = EnvStreams \cup OtherKeys
    /\ capacity = ChannelCapacity + 1
    /\ clients = [k \in EnvStreams |-> <<k>>]
    /\ keyOrder = EnvOrder
    /\ mainPc = "serving"
    /\ pending = {}
    /\ lockHolder = 0
    /\ tailPos = [c \in Channels |-> 0]
    /\ rxCnt = [c \in Channels |-> 0]
    /\ buffer = [c \in Channels |-> NewBuffer]
    /\ produced = [c \in Channels |-> 0]
    /\ flow = [c \in Channels |-> "none"]
    /\ pipeline = [c \in Channels |-> "ok"]
    /\ hs = [s \in Sessions |-> "idle"]
    /\ req = [s \in Sessions |-> NoName]
    /\ key = [s \in Sessions |-> NoName]
    /\ pcIn = [s \in Sessions |-> "none"]
    /\ pcOut = [s \in Sessions |-> "none"]
    /\ rxNext = [s \in Sessions |-> 0]
    /\ held = [s \in Sessions |-> 0]
    /\ recvLog = [s \in Sessions |-> <<>>]
    /\ delivered = [s \in Sessions |-> <<>>]
    /\ subAt = [s \in Sessions |-> 0]
    /\ overrun = [s \in Sessions |-> FALSE]
    /\ peer = [s \in Sessions |-> "open"]
    /\ inbound = [s \in Sessions |-> [sent |-> 0, read |-> 0]]

SpecRing == InitRing /\ [][Next]_vars

\* ------------------------------------------------------ talking viewers
\* The server of one camera, with viewers that send messages of their own.
NextViewer ==
    \/ Next
    \/ \E s \in Sessions : ViewerSend(s)

\* The state when warp::serve starts in a deployment with one camera, CCTV_Cam.
InitViewer ==
    /\ impl \in {"main", "web"}
    /\ environ = {Cam} \cup OtherKeys
    /\ capacity = ChannelCapacity
    /\ clients = [k \in {Cam} |-> <<k>>]
    /\ keyOrder = <<Cam>>
    /\ mainPc = "serving"
    /\ pending = {}
    /\ lockHolder = 0
    /\ tailPos = [c \in Channels |-> 0]
    /\ rxCnt = [c \in Channels |-> 0]
    /\ buffer = [c \in Channels |-> NewBuffer]
    /\ produced = [c \in Channels |-> 0]
    /\ flow = [c \in Channels |-> "none"]
    /\ pipeline = [c \in Channels |-> "ok"]
    /\ hs = [s \in Sessions |-> "idle"]
    /\ req = [s \in Sessions |-> NoName]
    /\ key = [s \in Sessions |-> NoName]
    /\ pcIn = [s \in Sessions |-> "none"]
    /\ pcOut = [s \in Sessions |-> "none"]
    /\ rxNext = [s \in Sessions |-> 0]
    /\ held = [s \in Sessions |-> 0]
    /\ recvLog = [s \in Sessions |-> <<>>]
    /\ delivered = [s \in Sessions |-> <<>>]
    /\ subAt = [s \in Sessions |-> 0]
    /\ overrun = [s \in Sessions |-> FALSE]
    /\ peer = [s \in Sessions |-> "open"]
    /\ inbound = [s \in Sessions |-> [sent |-> 0, read |-> 0]]

SpecViewer == InitViewer /\ [][NextViewer]_vars

\* ------------------------------------------------- start-up and dispatch
\* The process from the start of main: the registration loop over the collected
\* keys, then the server, whose handlers look names up in the registry the loop
\* built. The environment's key set is drawn from EnvConfigs.
InitStartup ==
    /\ impl \in {"main", "web"}
    /\ capacity = ChannelCapacity
    /\ clients = [k \in {} |-> <<>>]
    /\ keyOrder = <<>>
    /\ mainPc = "setup"
    /\ pending \in EnvConfigs
    /\ environ = pending \cup OtherKeys
    /\ lockHolder = 0
    /\ tailPos = [c \in Channels |-> 0]
    /\ rxCnt = [c \in Channels |-> 0]
    /\ buffer = [c \in Channels |-> NewBuffer]
    /\ produced = [c \in Channels |-> 0]
    /\ flow = [c \in Channels |-> "none"]
    /\ pipeline = [c \in Channels |-> "ok"]
    /\ hs = [s \in Sessions |-> "idle"]
    /\ req = [s \in Sessions |-> NoName]
    /\ key = [s \in Sessions |-> NoName]
    /\ pcIn = [s \in Sessions |-> "none"]
    /\ pcOut = [s \in Sessions |-> "none"]
    /\ rxNext = [s \in Sessions |-> 0]
    /\ held = [s \in Sessions |-> 0]
    /\ recvLog = [s \in Sessions |-> <<>>]
    /\ delivered = [s \in Sessions |-> <<>>]
    /\ subAt = [s \in Sessions |-> 0]
    /\ overrun = [s \in Sessions |-> FALSE]
    /\ peer = [s \in Sessions |-> "open"]
    /\ inbound = [s \in Sessions |-> [sent |-> 0, read |-> 0]]

\* Sequence seq with key k put at index i.
InsertAt(seq, i, k) ==
    [j \in 1..(Len(seq) + 1) |->
        IF j < i THEN seq[j] ELSE IF j = i THEN k ELSE seq[j - 1]]

\* Register as a loop that inserts the name with an empty list of senders
\* would do it.
Register_NoSender(k) ==
    /\ mainPc = "setup"
    /\ k \in pending
    /\ lockHolder = 0
    /\ pending' = pending \ {k}
    /\ clients' = [j \in DOMAIN clients \cup {k} |-> IF j = k THEN <<>> ELSE clients[j]]
    /\ \E i \in 1..(Len(keyOrder) + 1) : keyOrder' = InsertAt(keyOrder, i, k)
    /\ UNCHANGED <<impl, environ, capacity, mainPc, lockHolder, chanVars, sessVars, netVars>>

\* One turn of main's loop over rtsp_streams, taken in the HashMap's order:
\* broadcast::channel(100), whose receiver is dropped at once, then
\* clients_lock.insert(name, vec![tx]) and the spawn of the pipeline thread.
\* Where the key lands in the registry's iteration order is the hasher's choice.
Register(k) ==
    /\ mainPc = "setup"
    /\ k \in pending
    /\ lockHolder = 0
    /\ pending' = pending \ {k}
    /\ clients' = [j \in DOMAIN clients \cup {k} |-> IF j = k THEN <<k>> ELSE clients[j]]
    /\ \E i \in 1..(Len(keyOrder) + 1) : keyOrder' = InsertAt(keyOrder, i, k)
    /\ UNCHANGED <<impl, environ, capacity, mainPc, lockHolder, chanVars, sessVars, netVars>>

\* Serve as a main that starts the server from inside its registration loop
\* would do it.
Serve_Early ==
    /\ mainPc = "setup"
    /\ mainPc' = "serving"
    /\ UNCHANGED <<impl, environ, capacity, clients, keyOrder, pending, lockHolder, chanVars, sessVars, netVars>>

\* The loop is over: main writes the page and starts warp::serve.
Serve ==
    /\ mainPc = "setup"
    /\ pending = {}
    /\ mainPc' = "serving"
    /\ UNCHANGED <<impl, environ, capacity, clients, keyOrder, pending, lockHolder, chanVars, sessVars, netVars>>

NextStartup ==
    \/ \E k \in AllStreams : Register(k)
    \/ Serve
    \/ \E c \in Channels : Publish(c)
    \/ \E s \in Sessions :
          \/ Invoke(s)
          \/ LookupSubscribe(s)

SpecStartup == InitStartup /\ [][NextStartup]_vars

\* ------------------------------------------------ the environment's keys
\* The process from the first line of main, in an environment that holds any
\* of the keys of EnvKeys: main collects the camera keys, registers them and
\* starts the server.
InitEnv ==
    /\ impl \in {"main", "web"}
    /\ capacity = ChannelCapacity
    /\ clients = [k \in {} |-> <<>>]
    /\ keyOrder = <<>>
    /\ mainPc = "collect"
    /\ pending = {}
    /\ environ \in SUBSET EnvKeys
    /\ lockHolder = 0
    /\ tailPos = [c \in Channels |-> 0]
    /\ rxCnt = [c \in Channels |-> 0]
    /\ buffer = [c \in Channels |-> NewBuffer]
    /\ produced = [c \in Channels |-> 0]
    /\ flow = [c \in Channels |-> "none"]
    /\ pipeline = [c \in Channels |-> "ok"]
    /\ hs = [s \in Sessions |-> "idle"]
    /\ req = [s \in Sessions |-> NoName]
    /\ key = [s \in Sessions |-> NoName]
    /\ pcIn = [s \in Sessions |-> "none"]
    /\ pcOut = [s \in Sessions |-> "none"]
    /\ rxNext = [s \in Sessions |-> 0]
    /\ held = [s \in Sessions |-> 0]
    /\ recvLog = [s \in Sessions |-> <<>>]
    /\ delivered = [s \in Sessions |-> <<>>]
    /\ subAt = [s \in Sessions |-> 0]
    /\ overrun = [s \in Sessions |-> FALSE]
    /\ peer = [s \in Sessions |-> "open"]
    /\ inbound = [s \in Sessions |-> [sent |-> 0, read |-> 0]]

\* Collect as a main that takes every key with the camera prefix, the
\* credentials among them, would do it.
Collect_KeepsCredentials ==
    /\ mainPc = "collect"
    /\ pending' = {k \in environ : starts_with(k, Prefix)}
    /\ mainPc' = "setup"
    /\ UNCHANGED <<impl, environ, capacity, clients, keyOrder, lockHolder, chanVars, sessVars, netVars>>

\* The loop over env::vars(): rtsp_streams gets every key that starts with
\* CCTV_ and does not start with CCTV_CRED_.
Collect ==
    /\ mainPc = "collect"
    /\ pending' = {k \in environ : starts_with(k, Prefix) /\ ~starts_with(k, CredPrefix)}
    /\ mainPc' = "setup"
    /\ UNCHANGED <<impl, environ, capacity, clients, keyOrder, lockHolder, chanVars, sessVars, netVars>>

NextEnv ==
    \/ Collect
    \/ \E k \in EnvKeys : Register(k)
    \/ Serve

SpecEnv == InitEnv /\ [][NextEnv]_vars

\* ------------------------------------------------------------ properties
IsFrame(e) == e[1] = "F"
IsLagged(e) == e[1] = "L"

\* A session that got past the lookup: it subscribed and its tasks were, or are
\* about to be, spawned.
Accepted(s) == hs[s] \in {"greet", "select", "returned"}

RECURSIVE AccountedUpTo(_, _)
\* Frames that the first i outcomes of a recv log account for: one per frame,
\* n per Lagged(n).
AccountedUpTo(log, i) ==
    IF i = 0 THEN 0
    ELSE AccountedUpTo(log, i - 1) + (IF IsFrame(log[i]) THEN 1 ELSE log[i][2])

\* The number of the last frame of its stream that session s has received or
\* been told it skipped.
LastSeen(s) == subAt[s] + AccountedUpTo(recvLog[s], Len(recvLog[s]))

\* Frames published on the session's stream since its last recv outcome.
Backlog(s) == produced[ChannelOf(key[s])] - LastSeen(s)

\* The frames the ring of channel c retains.
Retained(c) == {buffer[c][i].val : i \in {j \in DOMAIN buffer[c] : buffer[c][j].pos >= 0}}

\* The frames the session has not seen and the ring no longer holds.
EvictedUnread(s) ==
    {f \in (LastSeen(s) + 1)..produced[ChannelOf(key[s])] : f \notin Retained(ChannelOf(key[s]))}

\* The frame numbers of a recv log, and of the binary messages written.
FramesOf(log) == LET fs == SelectSeq(log, IsFrame) IN [i \in DOMAIN fs |-> fs[i][2]]
IsBinary(e) == e[1] = "binary"
DeliveredFrames(s) ==
    LET bs == SelectSeq(delivered[s], IsBinary) IN [i \in DOMAIN bs |-> bs[i][2]]

\* The sequence <<a + 1, .., a + n>>.
Run(a, n) == [i \in 1..n |-> a + i]

\* The number of the last frame before index i of a recv log, base if none.
RECURSIVE PrevFrame(_, _, _)
PrevFrame(log, i, base) ==
    IF i <= 1 THEN base
    ELSE IF IsFrame(log[i - 1]) THEN log[i - 1][2]
    ELSE PrevFrame(log, i - 1, base)

\* C1: when recv reports Lagged(n) the outgoing pump skips it and goes on: a
\* session whose last recv outcome is Lagged still has its pump at recv.
C1_LaggedKeepsPump ==
    \A s \in Sessions :
        (recvLog[s] # <<>> /\ IsLagged(recvLog[s][Len(recvLog[s])]))
            => pcOut[s] = "recv"

\* C2: once handle_ws_client has returned, neither task of the session takes a
\* further step: no recv on the subscription, no write or read on the transport.
C2_NoStepAfterReturn ==
    [][\A s \in Sessions :
          hs[s] = "returned" =>
              /\ pcIn'[s] = pcIn[s]
              /\ pcOut'[s] = pcOut[s]
              /\ rxNext'[s] = rxNext[s]
              /\ recvLog'[s] = recvLog[s]
              /\ delivered'[s] = delivered[s]]_vars

\* C3: once handle_ws_client has returned, the session's Receiver is gone: the
\* channel counts no receiver of that session.
C3_ReleasedAfterReturn ==
    \A s \in Sessions : hs[s] = "returned" => ~RxAlive(s)

\* C4: the frames one subscription returns are in publish order, none twice,
\* none after a later one; a frame that is not the successor of the frame
\* before it (of the subscription point, for the first) directly follows a
\* Lagged outcome.
C4_PublishOrder ==
    \A s \in Sessions :
        \A i \in DOMAIN recvLog[s] :
            IsFrame(recvLog[s][i]) =>
                LET prev == PrevFrame(recvLog[s], i, subAt[s])
                IN  /\ recvLog[s][i][2] > prev
                    /\ recvLog[s][i][2] # prev + 1 =>
                           (i > 1 /\ IsLagged(recvLog[s][i - 1]))

\* A subscription that lagged and then went on: a Lagged outcome followed by
\* two frames.
C4_Witness ==
    \E s \in Sessions :
        \E i \in DOMAIN recvLog[s] :
            /\ i + 2 <= Len(recvLog[s])
            /\ IsLagged(recvLog[s][i])
            /\ IsFrame(recvLog[s][i + 1])
            /\ IsFrame(recvLog[s][i + 2])

\* C5: a recv made after more than a ring of frames was published since the
\* subscription's last outcome returns Lagged(n), n the number of frames it has
\* not seen that the ring no longer holds.
C5_LagCount ==
    [][\A s \in Sessions :
          (recvLog'[s] # recvLog[s] /\ Backlog(s) > BufferLen) =>
              recvLog'[s] = Append(recvLog[s], <<"L", Cardinality(EvictedUnread(s))>>)]_vars

\* Two stalls in one state: one subscription lagged after it had read a frame
\* (its cursor was inside the ring), another was told it skipped two frames.
C5_Witness ==
    /\ \E s \in Sessions :
          \E i \in DOMAIN recvLog[s] :
              i > 1 /\ IsLagged(recvLog[s][i]) /\ IsFrame(recvLog[s][i - 1])
    /\ \E s \in Sessions :
          \E i \in DOMAIN recvLog[s] :
              IsLagged(recvLog[s][i]) /\ recvLog[s][i][2] >= 2

\* C6: a subscription that was never overrun has received the frames published
\* after its subscription, in publish order and without a gap; once it has
\* caught up with the tail it has received all of them; and while the viewer's
\* end is open every frame received has been written to it, bar the one in hand.
C6_AllFramesInOrder ==
    \A s \in Sessions :
        (Accepted(s) /\ ~overrun[s]) =>
            /\ recvLog[s] = [i \in 1..Len(recvLog[s]) |-> <<"F", subAt[s] + i>>]
            /\ (pcOut[s] = "recv" /\ rxNext[s] = tailPos[ChannelOf(key[s])]) =>
                   LastSeen(s) = produced[ChannelOf(key[s])]
            /\ peer[s] = "open" =>
                   DeliveredFrames(s) =
                       Run(subAt[s], Len(recvLog[s]) - (IF pcOut[s] = "send" THEN 1 ELSE 0))

\* Viewer A subscribed before the first frame and viewer B after the second;
\* A has been sent every frame and B the frames after the second.
C6_Witness ==
    \E a, b \in Sessions :
        /\ key[a] = key[b]
        /\ Accepted(a) /\ Accepted(b)
        /\ subAt[a] = 0
        /\ subAt[b] = 2
        /\ DeliveredFrames(a) = Run(0, MaxFrames)
        /\ DeliveredFrames(b) = Run(2, MaxFrames - 2)

\* C7: a frame published after subscribe returned is what the subscription's
\* first recv yields, also while the outgoing task has not been spawned or has
\* not polled yet (as long as the frame has not been evicted).
C7_FirstRecvSeesNextPublish ==
    \A s \in Sessions :
        /\ (RxAlive(s) /\ recvLog[s] = <<>> /\ Backlog(s) \in 1..BufferLen) =>
               LET r == RecvResult(ChannelOf(key[s]), rxNext[s])
               IN  r.kind = "Ok" /\ r.val = subAt[s] + 1
        /\ (recvLog[s] # <<>> /\ IsFrame(recvLog[s][1])) =>
               recvLog[s][1][2] = subAt[s] + 1

\* A frame was published between subscribe and the spawn of the outgoing task.
C7_Witness ==
    \E s \in Sessions :
        /\ hs[s] = "greet"
        /\ produced[ChannelOf(key[s])] = subAt[s] + 1
        /\ subAt[s] > 0

\* C8: no backlog: every frame a session receives or sends to its viewer was
\* published after its subscribe.
C8_NoBacklog ==
    \A s \in Sessions :
        /\ \A i \in DOMAIN recvLog[s] :
               IsFrame(recvLog[s][i]) => recvLog[s][i][2] > subAt[s]
        /\ \A i \in DOMAIN DeliveredFrames(s) : DeliveredFrames(s)[i] > subAt[s]

\* One viewer subscribed while an earlier frame was still in the ring, another
\* after frames were published to no subscriber; both have received a frame.
C8_Witness ==
    /\ \E s \in Sessions :
          /\ recvLog[s] # <<>>
          /\ IsFrame(recvLog[s][1])
          /\ \E f \in Retained(ChannelOf(key[s])) : f <= subAt[s]
    /\ \E s \in Sessions :
          /\ recvLog[s] # <<>>
          /\ IsFrame(recvLog[s][1])
          /\ subAt[s] > 0
          /\ rxNext[s] = AccountedUpTo(recvLog[s], Len(recvLog[s]))

\* C9: publish never waits: whenever the adapter of a registered stream has a
\* frame, its publish step is enabled, whoever holds the registry lock and
\* however far any receiver lags.
C9_PublishNeverBlocks ==
    \A c \in Channels :
        (c \in DOMAIN clients /\ produced[c] < FrameBudget(c)) => ENABLED Publish(c)

\* The adapter has a frame while a handler holds the registry lock, the ring is
\* full and a live receiver is more than a ring behind.
C9_Witness ==
    \E s \in Sessions :
        /\ lockHolder # 0
        /\ RxAlive(s)
        /\ tailPos[ChannelOf(key[s])] - rxNext[s] > BufferLen
        /\ produced[ChannelOf(key[s])] < FrameBudget(ChannelOf(key[s]))

\* C10: a subscriber that never polls does not hold up another one on the same
\* stream: the other one's poll is enabled whenever a frame waits for it, and,
\* unless it was overrun itself, it gets every frame in order with no Lagged.
C10_StalledPeerDoesNotBlock ==
    \A s, t \in Sessions :
        (s # t /\ Accepted(s) /\ RxAlive(t) /\ key[s] = key[t] /\ recvLog[t] = <<>>) =>
            /\ (pcOut[s] = "recv" /\ Backlog(s) > 0) =>
                   ENABLED (Outgoing_main(s) \/ Outgoing_web(s))
            /\ ~overrun[s] =>
                   /\ FramesOf(recvLog[s]) = Run(subAt[s], Len(recvLog[s]))
                   /\ (pcOut[s] = "recv" /\ ~ENABLED (Outgoing_main(s) \/ Outgoing_web(s))) =>
                          LastSeen(s) = produced[ChannelOf(key[s])]

\* One subscriber has never polled and was overrun; the other on the same
\* stream has received every frame, more than the ring holds.
C10_Witness ==
    \E s, t \in Sessions :
        /\ s # t
        /\ key[s] = key[t]
        /\ RxAlive(t) /\ recvLog[t] = <<>> /\ overrun[t]
        /\ ~overrun[s]
        /\ Len(recvLog[s]) > BufferLen
        /\ FramesOf(recvLog[s]) = Run(subAt[s], Len(recvLog[s]))
        /\ LastSeen(s) = produced[ChannelOf(key[s])]

\* ------------------------------------------- properties of the registry
\* Registered key k answers to the requested name: their lowercase forms agree.
Matches(k, name) == to_lowercase(k) = to_lowercase(name)

\* A session whose handler has left the block under the lock.
Dispatched(s) == hs[s] \notin {"idle", "locked"}

\* C11: the lookup is case-insensitive: a request whose lowercase form is that
\* of a registered name R is accepted and resolves to the entry registered
\* under R, and a request that matches no registered name is rejected.
C11_LookupCaseInsensitive ==
    \A s \in Sessions :
        Dispatched(s) =>
            /\ \A R \in DOMAIN clients :
                   Matches(R, req[s]) => (Accepted(s) /\ key[s] = R)
            /\ (\A R \in DOMAIN clients : ~Matches(R, req[s])) => hs[s] = "rejected"

\* C12: no two registered stream names have the same lowercase form, whatever
\* set of keys the environment configures.
C12_NamesUniqueUnderLowercase ==
    \A k1, k2 \in DOMAIN clients :
        to_lowercase(k1) = to_lowercase(k2) => k1 = k2

\* The sessions that own a live Receiver of channel c.
ReceiversOf(c) == {t \in Sessions : RxAlive(t) /\ ChannelOf(key[t]) = c}

\* C13: a connection that asks for a name no registered name matches is
\* rejected: it takes no subscription on any channel (every channel counts
\* exactly the receivers of the accepted sessions), neither task is started,
\* no message of any kind is written to it, and its transport is dropped.
C13_UnknownNameRejected ==
    /\ \A s \in Sessions :
          (Dispatched(s) /\ \A k \in DOMAIN clients : ~Matches(k, req[s])) =>
              /\ hs[s] = "rejected"
              /\ key[s] = NoName
              /\ ~RxAlive(s)
              /\ pcIn[s] = "none"
              /\ pcOut[s] = "none"
              /\ delivered[s] = <<>>
              /\ ~TransportHeld(s)
    /\ \A c \in Channels : rxCnt[c] = Cardinality(ReceiversOf(c))

\* One connection was rejected for an unknown name while another session holds
\* a subscription and has been sent a frame.
C13_Witness ==
    \E s, t \in Sessions :
        /\ hs[s] = "rejected"
        /\ \A k \in DOMAIN clients : ~Matches(k, req[s])
        /\ RxAlive(t)
        /\ DeliveredFrames(t) # <<>>

\* C14: everything a session writes to its viewer is a binary message that
\* carries one frame received on the session's own subscription; no text or
\* status message is written, in either draft of the handler.
C14_OnlyBinaryFrames ==
    \A s \in Sessions :
        \A i \in DOMAIN delivered[s] :
            /\ IsBinary(delivered[s][i])
            /\ \E j \in DOMAIN recvLog[s] : recvLog[s][j] = <<"F", delivered[s][i][2]>>

\* A step in which session s loses its viewer or ends one of its parts: the
\* viewer's end closes, a task finishes, or the handler returns.
TearsDown(s) ==
    \/ peer'[s] # peer[s]
    \/ (pcIn'[s] = "done" /\ pcIn[s] # "done")
    \/ (pcOut'[s] = "done" /\ pcOut[s] # "done")
    \/ (hs'[s] = "returned" /\ hs[s] # "returned")

\* Everything session t owns.
SessionState(t) ==
    <<hs[t], req[t], key[t], pcIn[t], pcOut[t], rxNext[t], held[t],
      recvLog[t], delivered[t], subAt[t], overrun[t], peer[t]>>

\* C15: the end of one session touches nothing else. A step that tears a
\* session down leaves every ring, tail and adapter as they were and changes
\* nothing of any other session; and a session that shares the stream with one
\* that has gone still gets every frame published since it subscribed, in
\* order: all of them once its poll has nothing left to return.
C15_TeardownIsLocal ==
    /\ [](\A s, t \in Sessions :
            (/\ s # t /\ key[s] = key[t] /\ Accepted(s) /\ Accepted(t)
             /\ (pcOut[s] = "done" \/ peer[s] = "closed")
             /\ peer[t] = "open" /\ ~overrun[t]) =>
                /\ pcOut[t] \in {"none", "recv", "send"}
                /\ FramesOf(recvLog[t]) = Run(subAt[t], Len(recvLog[t]))
                /\ (pcOut[t] = "recv" /\ ~ENABLED (Outgoing_main(t) \/ Outgoing_web(t))) =>
                       LastSeen(t) = produced[ChannelOf(key[t])])
    /\ [][\A s \in Sessions :
            TearsDown(s) =>
                /\ UNCHANGED <<buffer, tailPos, produced, flow, clients>>
                /\ \A t \in Sessions \ {s} : SessionState(t)' = SessionState(t)]_vars

\* Two sessions on one stream: one has lost its viewer after a frame and its
\* pump has ended on the failed write; the other has gone on to receive every
\* frame the adapter produced, more than the one that left.
C15_Witness ==
    \E s, t \in Sessions :
        /\ s # t
        /\ key[s] = key[t]
        /\ peer[s] = "closed" /\ pcOut[s] = "done" /\ DeliveredFrames(s) # <<>>
        /\ peer[t] = "open" /\ ~overrun[t]
        /\ Len(recvLog[t]) > Len(recvLog[s])
        /\ LastSeen(t) = FrameBudget(ChannelOf(key[t]))
        /\ DeliveredFrames(t) = Run(subAt[t], Len(recvLog[t]))

C17_DeliversLatestFrame ==
    \A s \in Sessions :
        (/\ hs[s] \in {"select", "returned"}
         /\ peer[s] = "open"
         /\ produced[ChannelOf(key[s])] > subAt[s]
         /\ ~ENABLED (Outgoing_main(s) \/ Outgoing_web(s) \/ OutgoingSend(s))) =>
            /\ DeliveredFrames(s) # <<>>
            /\ DeliveredFrames(s)[Len(DeliveredFrames(s))] = produced[ChannelOf(key[s])]

\* The next connection in arrival order.
NextToArrive(s) == hs[s] = "idle" /\ \A t \in Sessions : t < s => hs[t] # "idle"

\* C18: no party waits for ever on another. The registry lock is held only by
\* a handler inside its block, which can always finish the block and free the
\* lock; with the lock free the next handler can take it. A pump at recv can
\* step as soon as the ring holds a frame at its cursor, a pump at the write
\* can always step, the incoming task can step as soon as the viewer has sent
\* a message or closed, and the adapter can always publish.
C18_NoDeadlock ==
    /\ \A s \in Sessions :
          /\ hs[s] = "locked" <=> lockHolder = s
          /\ hs[s] = "locked" => ENABLED LookupSubscribe(s)
          /\ (lockHolder = 0 /\ mainPc = "serving" /\ NextToArrive(s)) => ENABLED Invoke(s)
          /\ (pcOut[s] = "recv" /\ tailPos[ChannelOf(key[s])] > rxNext[s]) =>
                 ENABLED (Outgoing_main(s) \/ Outgoing_web(s))
          /\ pcOut[s] = "send" => ENABLED OutgoingSend(s)
          /\ (pcIn[s] = "run"
              /\ (peer[s] # "open" \/ inbound[s].read < inbound[s].sent)) =>
                 ENABLED Incoming(s)
    /\ lockHolder \in Sessions \cup {0}
    /\ \A c \in DOMAIN clients : produced[c] < FrameBudget(c) => ENABLED Publish(c)

\* A handler holds the registry lock while the pump of another session waits
\* on an empty ring for a frame the adapter has yet to publish.
C18_Witness ==
    \E s, t \in Sessions :
        /\ lockHolder = s
        /\ pcOut[t] = "recv"
        /\ recvLog[t] # <<>>
        /\ rxNext[t] = tailPos[ChannelOf(key[t])]
        /\ produced[ChannelOf(key[t])] < FrameBudget(ChannelOf(key[t]))

\* C19: publishing never fails because of the subscribers: whatever their
\* number, zero included, the callback returns success to the pipeline, the
\* adapter keeps running, and the next frame is published in the same way.
C19_PublishNeverFails ==
    \A c \in DOMAIN clients :
        /\ flow[c] \in {"none", "Ok"}
        /\ produced[c] > 0 => flow[c] = "Ok"
        /\ produced[c] < FrameBudget(c) => ENABLED Publish(c)

\* A stream that has published with subscribers and without: frames were
\* stored, later ones found no receiver, none is subscribed now, and the
\* adapter has more to publish.
C19_Witness ==
    \E c \in DOMAIN clients :
        /\ rxCnt[c] = 0
        /\ tailPos[c] > 0
        /\ produced[c] > tailPos[c] + 1
        /\ flow[c] = "Ok"
        /\ produced[c] < FrameBudget(c)

\* C20: a stream's registry entry is never removed or replaced, however many
\* subscribers its channel has, none included: the registry never changes
\* once the server runs and holds every configured stream with its own
\* channel; a request that matches a registered name is accepted whenever it
\* comes; and a viewer that subscribes after frames went out to no one gets
\* the frames published from then on, in order.
C20_BroadcastersPersist ==
    /\ [](/\ \A k \in EnvStreams : k \in DOMAIN clients /\ clients[k] = <<k>>
          /\ \A s \in Sessions :
                (Dispatched(s) /\ \E k \in EnvStreams : Matches(k, req[s])) =>
                    /\ Accepted(s)
                    /\ Matches(key[s], req[s])
                    /\ (produced[ChannelOf(key[s])] > tailPos[ChannelOf(key[s])]
                          /\ ~overrun[s] /\ RxAlive(s)) =>
                           /\ FramesOf(recvLog[s]) = Run(subAt[s], Len(recvLog[s]))
                           /\ LastSeen(s) + (tailPos[ChannelOf(key[s])] - rxNext[s])
                                  = produced[ChannelOf(key[s])])
    /\ [][clients' = clients]_vars

\* The first viewer of a stream got a frame and left, a frame was then
\* published to no one, and a second viewer has subscribed after it and has
\* been sent a frame published since.
C20_Witness ==
    \E s, t \in Sessions :
        /\ s # t
        /\ key[s] = key[t]
        /\ subAt[s] = 0 /\ pcOut[s] = "done" /\ DeliveredFrames(s) # <<>>
        /\ produced[ChannelOf(key[t])] > tailPos[ChannelOf(key[t])]
        /\ RxAlive(t)
        /\ subAt[t] > DeliveredFrames(s)[Len(DeliveredFrames(s))]
        /\ DeliveredFrames(t) # <<>>
        /\ DeliveredFrames(t)[1] = subAt[t] + 1

\* --------------------------------------- properties with failing cameras
\* A step in which the adapter of channel c fails: its set-up, or one sample.
AdapterFails(c) ==
    \/ pipeline'[c] # pipeline[c]
    \/ (flow'[c] # flow[c] /\ produced'[c] = produced[c])

\* C21: a failing adapter publishes nothing and nothing is made up in its
\* place. The failing step leaves every ring, tail and receiver count and
\* every session as they were; every frame in a ring or received by a session
\* is one the stream's adapter published; the viewers of a stream whose
\* pipeline failed stay subscribed, their pump waiting, and are sent no
\* frame; the adapters of the other streams can still publish and their
\* viewers get every frame in order.
C21_AdapterFailureIsolated ==
    /\ [](/\ \A c \in Channels : \A i \in SlotIndex :
                buffer[c][i].pos >= 0 => buffer[c][i].val \in 1..produced[c]
          /\ \A s \in Sessions : \A i \in DOMAIN recvLog[s] :
                IsFrame(recvLog[s][i]) =>
                    recvLog[s][i][2] \in (subAt[s] + 1)..produced[key[s]]
          /\ \A s \in Sessions :
                (hs[s] \in {"select", "returned"} /\ pipeline[key[s]] = "failed") =>
                    /\ recvLog[s] = <<>>
                    /\ DeliveredFrames(s) = <<>>
                    /\ peer[s] = "open" => pcOut[s] = "recv"
          /\ \A c \in DOMAIN clients :
                (pipeline[c] = "ok" /\ produced[c] < FrameBudget(c)) => ENABLED Publish(c)
          /\ \A s \in Sessions :
                (/\ Accepted(s) /\ ~overrun[s] /\ RxAlive(s)
                 /\ \E c \in Channels : c # key[s] /\ (pipeline[c] = "failed" \/ flow[c] = "Ok")) =>
                    /\ FramesOf(recvLog[s]) = Run(subAt[s], Len(recvLog[s]))
                    /\ LastSeen(s) + (tailPos[key[s]] - rxNext[s]) = produced[key[s]])
    /\ [][\A c \in Channels :
            AdapterFails(c) =>
                UNCHANGED <<buffer, tailPos, rxCnt, produced, sessVars, netVars, regVars>>]_vars

\* The pipeline of one stream failed at set-up while a viewer is subscribed to
\* it and waits with its transport open; a viewer of the other stream has been
\* sent every frame that stream's adapter had to publish.
C21_Witness ==
    \E s, t \in Sessions :
        /\ hs[s] = "select" /\ pcOut[s] = "recv" /\ peer[s] = "open"
        /\ pipeline[key[s]] = "failed"
        /\ key[t] # key[s]
        /\ Accepted(t)
        /\ DeliveredFrames(t) = Run(0, FrameBudget(key[t]))

\* ------------------------------------------------ properties, continued
\* The last outcome of a recv log, <<"F", 0>> for an empty log.
LastOutcome(log) == IF log = <<>> THEN <<"F", 0>> ELSE log[Len(log)]

\* The oldest frame the ring of channel c retains.
OldestRetained(c) == CHOOSE f \in Retained(c) : \A g \in Retained(c) : f <= g

\* C22: the lag signal comes once and the subscription resumes at the oldest
\* frame of the ring: the poll after a Lagged outcome returns the oldest
\* retained frame, unless a publish in between has overwritten that one too,
\* and the poll after a frame returns the next frame in publish order, unless
\* the receiver was overrun again.
C22_ResumeAtOldest ==
    [][\A s \in Sessions :
          (recvLog'[s] # recvLog[s] /\ recvLog[s] # <<>>
           /\ tailPos[key[s]] - rxNext[s] <= BufferLen) =>
              IF IsLagged(LastOutcome(recvLog[s]))
              THEN recvLog'[s] = Append(recvLog[s], <<"F", OldestRetained(key[s])>>)
              ELSE recvLog'[s] = Append(recvLog[s], <<"F", LastOutcome(recvLog[s])[2] + 1>>)]_vars

\* A subscription that was told it skipped frames, then received the frame
\* right after the skipped ones while a newer one was in the ring, and then
\* that newer one.
C22_Witness ==
    \E s \in Sessions :
        \E i \in DOMAIN recvLog[s] :
            /\ i + 2 <= Len(recvLog[s])
            /\ IsLagged(recvLog[s][i])
            /\ recvLog[s][i + 1] = <<"F", PrevFrame(recvLog[s], i, subAt[s]) + recvLog[s][i][2] + 1>>
            /\ recvLog[s][i + 2] = <<"F", recvLog[s][i + 1][2] + 1>>
            /\ produced[key[s]] = recvLog[s][i + 2][2]

\* A step of session s: of its handler or of one of its tasks.
SessionStep(s) == SessionState(s)' # SessionState(s)

\* C23: handling viewer connections never changes the registry: whatever
\* step a session takes, accepted or rejected, the registered names, their
\* order and the channel behind each stay as main left them, and the step
\* that rejects a connection leaves every channel's receiver count as it was.
C23_HandlersLeaveRegistry ==
    /\ [](/\ DOMAIN clients = EnvStreams
          /\ \A k \in EnvStreams : clients[k] = <<k>>)
    /\ [][\A s \in Sessions :
            SessionStep(s) =>
                /\ UNCHANGED <<clients, keyOrder>>
                /\ (hs'[s] = "rejected" /\ hs[s] # "rejected") => rxCnt' = rxCnt]_vars

\* Both connections of a run have been handled, one rejected and one accepted
\* and since returned, and a third lookup would find the registry as it was.
C23_Witness ==
    \E s, t \in Sessions :
        /\ hs[s] = "rejected"
        /\ hs[t] = "returned"
        /\ recvLog[t] # <<>>
        /\ DOMAIN clients = EnvStreams

\* C24: streams that have nothing in common never wait for one another. While
\* a handler is in its block for a viewer of one stream, a connection for a
\* different registered stream can enter its own block; and the adapter of a
\* stream can publish and a pump can poll whatever is held for another stream.
C24_NoCrossStreamWait ==
    /\ \A s, t \in Sessions : \A a \in RequestNames :
          (/\ mainPc = "serving" /\ NextToArrive(s) /\ hs[t] = "locked"
           /\ find(a) # NoName /\ find(req[t]) # NoName /\ find(a) # find(req[t])) =>
              ENABLED (Invoke(s) /\ req'[s] = a)
    /\ \A c \in DOMAIN clients :
          (pipeline[c] = "ok" /\ produced[c] < FrameBudget(c)) => ENABLED Publish(c)
    /\ \A s \in Sessions :
          (pcOut[s] = "recv" /\ tailPos[key[s]] > rxNext[s]) =>
              ENABLED (Outgoing_main(s) \/ Outgoing_web(s))

IsClosed(e) == e[1] = "C"

\* C25: no subscription ever observes Closed: every registered channel has a
\* live Sender at all times, the one in the registry, also once the stream's
\* pipeline has failed and dropped its own, and no recv of any session has
\* returned the closed-channel error.
C25_NeverClosed ==
    /\ \A c \in DOMAIN clients : SenderCount(c) >= 1
    /\ \A s \in Sessions : \A i \in DOMAIN recvLog[s] : ~IsClosed(recvLog[s][i])
    /\ \A s \in Sessions :
          (hs[s] \in {"select", "returned"} /\ pipeline[key[s]] = "failed"
           /\ peer[s] = "open") => pcOut[s] = "recv"

\* A viewer is subscribed to a stream whose pipeline failed at set-up: the
\* registry's Sender is the only one left and the viewer's pump waits in recv.
C25_Witness ==
    \E s \in Sessions :
        /\ hs[s] = "select"
        /\ pcOut[s] = "recv"
        /\ pipeline[key[s]] = "failed"
        /\ SenderCount(key[s]) = 1
        /\ rxCnt[key[s]] = 1

\* C26: a message the viewer sends is read and discarded: the step that reads
\* it changes no cursor, nothing delivered or received by any session, no
\* channel and no registry entry, and leaves the session where it was, with both
\* of its tasks still running.
C26_InboundDiscarded ==
    [][\A s \in Sessions :
          inbound'[s].read > inbound[s].read =>
              /\ UNCHANGED <<rxNext, held, recvLog, delivered, subAt, key>>
              /\ UNCHANGED <<chanVars, regVars, lockHolder, peer>>
              /\ hs' = hs /\ pcOut' = pcOut
              /\ pcIn'[s] = "run"]_vars

\* A subscribed viewer has sent a message, the server has read it, and the
\* session is still streaming: both tasks run and frames have gone out.
C26_Witness ==
    \E s \in Sessions :
        /\ inbound[s].read = 1
        /\ hs[s] = "select"
        /\ pcIn[s] = "run"
        /\ pcOut[s] \in {"recv", "send"}
        /\ peer[s] = "open"
        /\ DeliveredFrames(s) # <<>>

\* C27: the ring of every stream is bounded by the configured capacity: the
\* number of frames it retains never exceeds the capacity handed to
\* broadcast::channel, whatever was published and however slow a subscriber is.
C27_RingWithinCapacity ==
    \A c \in DOMAIN clients : Cardinality(Retained(ChannelOf(c))) <= capacity

\* C27, amended: the ring of every stream is bounded by the configured capacity
\* rounded up to the next power of two, which is less than twice the capacity,
\* whatever was published and however slow a subscriber is.
C27_RingWithinRoundedCapacity ==
    /\ next_power_of_two(capacity) < 2 * capacity
    /\ \A c \in DOMAIN clients :
          Cardinality(Retained(ChannelOf(c))) <= next_power_of_two(capacity)

\* A stalled subscriber has read nothing while its stream published more frames
\* than the ring has slots, and the ring retains more frames than the
\* configured capacity.
C27_Witness ==
    \E s \in Sessions :
        /\ pcOut[s] = "recv"
        /\ recvLog[s] = <<>>
        /\ produced[key[s]] - subAt[s] > BufferLen
        /\ Cardinality(Retained(key[s])) > capacity

\* C28: all registrations complete before any lookup: whenever a handler has
\* been entered, main has left its registration loop with every configured
\* stream in the registry, and a viewer is rejected only for a name that
\* matches no configured stream.
C28_RegisteredBeforeLookup ==
    /\ mainPc = "serving" => pending = {}
    /\ \A s \in Sessions :
          hs[s] # "idle" => (mainPc = "serving" /\ pending = {})
    /\ \A s \in Sessions :
          hs[s] = "rejected" =>
              \A k \in DOMAIN clients \cup pending :
                  to_lowercase(k) # to_lowercase(req[s])

\* A viewer has been accepted on a stream of a registry that holds both
\* configured streams, after the stream's pipeline had already produced frames.
C28_Witness ==
    \E s \in Sessions :
        /\ hs[s] \in {"greet", "select"}
        /\ key[s] \in DOMAIN clients
        /\ Cardinality(DOMAIN clients) = 2
        /\ subAt[s] > 0

\* The frame that session s took from recv in this step, 0 if it took none.
FrameTaken(s) ==
    IF Len(recvLog'[s]) > Len(recvLog[s]) /\ IsFrame(recvLog'[s][Len(recvLog'[s])])
    THEN recvLog'[s][Len(recvLog'[s])][2]
    ELSE 0

\* C29: streams are isolated and the ingest adapter is the sole writer: a
\* session is bound to the stream its requested name resolves to; the ring of a
\* stream changes only in a step of that stream's adapter, which publishes its
\* next frame and moves no session; every frame a session receives is read
\* from the ring of its own stream, at its own cursor; and every frame it
\* delivers is the one it received.
C29_StreamsIsolated ==
    /\ [](\A s \in Sessions :
             key[s] # NoName =>
                 /\ key[s] = find(req[s])
                 /\ to_lowercase(key[s]) = to_lowercase(req[s])
                 /\ \A i \in DOMAIN recvLog[s] :
                       IsFrame(recvLog[s][i]) =>
                           recvLog[s][i][2] \in (subAt[s] + 1)..produced[key[s]])
    /\ [][/\ \A c \in Channels :
               (buffer'[c] # buffer[c] \/ tailPos'[c] # tailPos[c]) =>
                   /\ produced'[c] = produced[c] + 1
                   /\ \E i \in DOMAIN buffer[c] :
                         buffer'[c][i] = [pos |-> tailPos[c], val |-> produced'[c]]
                   /\ \A d \in Channels \ {c} :
                         buffer'[d] = buffer[d] /\ tailPos'[d] = tailPos[d]
                   /\ hs' = hs /\ pcIn' = pcIn /\ pcOut' = pcOut
                   /\ recvLog' = recvLog /\ delivered' = delivered
          /\ \A s \in Sessions :
               FrameTaken(s) # 0 =>
                   \E i \in DOMAIN buffer[key[s]] :
                       buffer[key[s]][i] = [pos |-> rxNext[s], val |-> FrameTaken(s)]
          /\ \A s \in Sessions :
               (Len(delivered'[s]) > Len(delivered[s])
                /\ IsBinary(delivered'[s][Len(delivered'[s])])) =>
                   /\ held[s] # 0
                   /\ delivered'[s][Len(delivered'[s])][2] = held[s]
                   /\ recvLog[s][Len(recvLog[s])] = <<"F", held[s]>>]_vars

\* Two viewers watch different streams at the same time and each has been
\* delivered a frame of its own stream.
C29_Witness ==
    \E s, t \in Sessions :
        /\ key[s] # NoName /\ key[t] # NoName
        /\ key[s] # key[t]
        /\ DeliveredFrames(s) # <<>>
        /\ DeliveredFrames(t) # <<>>
        /\ produced[key[s]] > 1

\* Whether session s is at, or past, a suspending operation: the greeting
\* write, a task reading the transport, waiting in recv or writing a frame,
\* or the handler waiting in select.
Suspending(s) ==
    \/ hs[s] \in {"greet", "select"}
    \/ pcIn[s] = "run"
    \/ pcOut[s] \in {"recv", "send"}

\* C30: the registry lock is held only for the lookup-and-subscribe step of a
\* connecting session: its holder is a handler inside its block, with no task
\* spawned and nothing sent yet, and no session that is at a transport write, a
\* transport read, a wait for the next frame or the wait for its tasks holds it.
C30_LockOnlyForLookup ==
    /\ lockHolder \in Sessions \cup {0}
    /\ \A s \in Sessions :
          lockHolder = s =>
              /\ hs[s] = "locked"
              /\ pcIn[s] = "none" /\ pcOut[s] = "none"
              /\ delivered[s] = <<>> /\ recvLog[s] = <<>>
    /\ \A s \in Sessions : Suspending(s) => lockHolder # s

\* One handler is inside its block under the lock while the pump of an earlier
\* session, which went through the block before it, is writing a frame to its
\* viewer.
C30_Witness ==
    \E s, t \in Sessions :
        /\ lockHolder = s
        /\ hs[s] = "locked"
        /\ hs[t] = "select"
        /\ pcOut[t] = "send"
        /\ delivered[t] # <<>>

\* C31: index-page round trip: the page opens the socket of each listed stream
\* under the lowercase form of its registered name, and that name resolves to
\* the entry registered under the listed name itself: find returns it, and a
\* handler called with it subscribes to it.
C31_PageRoundTrip ==
    mainPc = "serving" =>
        LET page == create_html_file(keyOrder)
        IN  \A i \in DOMAIN page :
                /\ find(page[i]) = keyOrder[i]
                /\ \A s \in Sessions :
                       (Dispatched(s) /\ req[s] = page[i]) =>
                           (Accepted(s) /\ key[s] = keyOrder[i])

\* C32: a stream stays registered when the set-up of its pipeline fails: its
\* entry keeps its sender, a viewer that asks for it is accepted and bound to
\* it, not rejected, and that viewer receives and is delivered no frame.
C32_FailedStreamStillServed ==
    \A c \in Channels :
        pipeline[c] = "failed" =>
            /\ c \in DOMAIN clients
            /\ Len(clients[c]) = 1
            /\ produced[c] = 0
            /\ \A s \in Sessions :
                  (Dispatched(s) /\ Matches(c, req[s])) =>
                      /\ Accepted(s)
                      /\ key[s] = c
                      /\ recvLog[s] = <<>>
                      /\ DeliveredFrames(s) = <<>>

\* A viewer that asked for the stream whose pipeline failed has been accepted
\* and waits in recv on its empty ring.
C32_Witness ==
    \E s \in Sessions :
        /\ Accepted(s)
        /\ Matches(Do, req[s])
        /\ key[s] = Do
        /\ pipeline[Do] = "failed"
        /\ pcOut[s] = "recv"
        /\ tailPos[Do] = 0

\* Whether the characters of key k begin with CCTV_ and go on with anything
\* but CRED_.
IsCameraKey(k) ==
    /\ Len(k) >= Len(Prefix)
    /\ SubSeq(k, 1, Len(Prefix)) = Prefix
    /\ ~(/\ Len(k) >= Len(CredPrefix)
         /\ SubSeq(k, 1, Len(CredPrefix)) = CredPrefix)

\* C33: the registered names are exactly the environment keys that start with
\* CCTV_ and do not start with CCTV_CRED_: while main registers, these keys are
\* the registered ones and the ones still to come; once it serves, they are the
\* registry's keys. Each is registered as it is spelled in the environment,
\* with a channel of its own, and no credential key is ever registered.
C33_RegisteredAreCameraKeys ==
    /\ mainPc = "setup" =>
          /\ DOMAIN clients \cup pending = {k \in environ : IsCameraKey(k)}
          /\ DOMAIN clients \cap pending = {}
    /\ mainPc = "serving" => DOMAIN clients = {k \in environ : IsCameraKey(k)}
    /\ \A k \in DOMAIN clients : k \in environ /\ clients[k] = <<k>>
    /\ \A k \in environ : starts_with(k, CredPrefix) => k \notin DOMAIN clients
    /\ \A i \in DOMAIN keyOrder : keyOrder[i] \in DOMAIN clients

\* The server runs in an environment that holds a credential, a camera, the
\* key CCTV_CRED and a key with the prefix in lowercase: the camera and
\* CCTV_CRED are registered, the other two are not.
C33_Witness ==
    /\ mainPc = "serving"
    /\ {CredUser, Cam, CredBare, to_lowercase(Cam)} \subseteq environ
    /\ {Cam, CredBare} \subseteq DOMAIN clients
    /\ CredUser \notin DOMAIN clients
    /\ to_lowercase(Cam) \notin DOMAIN clients

\* C34: every registry entry holds exactly one sender, so a name that matches
\* always yields a subscription: the key that find returns is in the registry,
\* its list of senders has a first element, and the only handler that returns
\* from the block under the lock is one whose name matched no key.
C34_OneSenderPerEntry ==
    /\ \A k \in DOMAIN clients : Len(clients[k]) = 1 /\ clients[k][1] \in Channels
    /\ \A n \in RequestNames : find(n) # NoName => find(n) \in DOMAIN clients
    /\ \A s \in Sessions :
          /\ (Dispatched(s) /\ find(req[s]) # NoName) => Accepted(s)
          /\ hs[s] = "rejected" => find(req[s]) = NoName

\* Both outcomes of the block: one viewer matched a key and holds a receiver
\* of that entry's one sender, another matched none and was turned away.
C34_Witness ==
    \E s, t \in Sessions :
        /\ Accepted(s)
        /\ Len(clients[key[s]]) = 1
        /\ rxCnt[ChannelOf(key[s])] >= 1
        /\ hs[t] = "rejected"
        /\ find(req[t]) = NoName
====
